---- MODULE Spec2Model ----
(***************************************************************************)
(* A model of the FAQ chatbot backend: the RAG answer pipeline             *)
(* (services/chat_service.py), the session store                          *)
(* (services/session_manager.py), the vector store                        *)
(* (store/vector_store.py), the chat and session routes (api/routes.py)    *)
(* and the ingestion (etl/excel_reader.py, etl/pipeline.py).               *)
(*                                                                         *)
(* Numbers: cosine distances and similarity scores are fixed-point values  *)
(* in tenths (a distance of 0.4 is 4, a score of 0.9 is 9).  Timestamps    *)
(* are the instants of the clock; the ISO-8601 text of an instant is       *)
(* represented by the instant itself.                                      *)
(***************************************************************************)
EXTENDS Integers, Sequences, FiniteSets, TLC

(***************************************************************************)
(* Bounds of the model.                                                    *)
(***************************************************************************)
MaxSessions == 2   \* session ids uuid4 can still hand out
MaxMessages == 2   \* messages in the sessions collection when it is called directly
MaxN == 2          \* largest n given to get_recent_history when it is called directly
MaxStored == 3     \* items in the collection when it is called directly
MaxClock == 1      \* last instant of the wall clock
MaxK == 4          \* largest top_k given to search when it is called directly
MaxResults == 2    \* length of a SearchResult list given to _build_sources
MaxHistory == 2    \* length of a history given to _build_prompt
MaxEntries == 3    \* rows of an FAQ sheet given to filter_published
MaxImages == 2     \* files in the image directory given to ingest_images

Calls == {1, 2}                \* concurrent answer() coroutines
Questions == {"q1", "q2"}
Asks == << "q1", "q2" >>       \* the question each coroutine is called with
Contents == {"a1"}             \* texts the provider may generate

None == "<None>"               \* Python's None

\* config.py: AppConfig.top_k and AppConfig.history_limit defaults
top_k == 3
history_limit == 5

(***************************************************************************)
(* models.py: ContentType                                                  *)
(***************************************************************************)
TEXT == "ContentType.TEXT"
IMAGE == "ContentType.IMAGE"
ContentTypes == {TEXT, IMAGE}
ValueError == "ValueError"

\* ContentType.X.value
ContentTypeValue(ct) == IF ct = TEXT THEN "text" ELSE "image"

\* ContentType(value): the member with that value, ValueError otherwise
ContentType(v) ==
  IF v = "text" THEN TEXT ELSE IF v = "image" THEN IMAGE ELSE ValueError

\* dict.get(key, default)
Get(d, k, default) == IF k \in DOMAIN d THEN d[k] ELSE default

\* the elements of a sequence
Range(s) == {s[i] : i \in DOMAIN s}

Min(a, b) == IF a < b THEN a ELSE b

Abs(x) == IF x < 0 THEN 0 - x ELSE x

(***************************************************************************)
(* The embedding function and the cosine space of the collection.          *)
(* A text is embedded as a direction 0..6 (steps of 30 degrees along one   *)
(* arc); CosineDistance is the cosine distance, in tenths, of two          *)
(* directions that many steps apart: it covers the range [0, 2] of the     *)
(* metric.                                                                 *)
(***************************************************************************)
Texts == {"A", "B", "C", "N"}

EmbeddingFunction(text) ==
  CASE text = "q1" -> 0
    [] text = "A" -> 1
    [] text = "C" -> 2
    [] text = "B" -> 3
    [] text = "N" -> 5
    [] text = "q2" -> 6
    [] OTHER -> 4

CosineDistance(e1, e2) ==
  CASE Abs(e1 - e2) = 0 -> 0
    [] Abs(e1 - e2) = 1 -> 1
    [] Abs(e1 - e2) = 2 -> 2
    [] Abs(e1 - e2) = 3 -> 4
    [] Abs(e1 - e2) = 4 -> 10
    [] Abs(e1 - e2) = 5 -> 15
    [] OTHER -> 20

(***************************************************************************)
(* store/vector_store.py                                                   *)
(***************************************************************************)

\* the metadata add_chunks stores for one Chunk
ChunkItemMetadata(c) ==
  [source_file |-> c.metadata.source_file,
   sheet_name |-> c.metadata.sheet_name,
   row_number |-> c.metadata.row_number,
   parent_category |-> c.metadata.parent_category,
   child_category |-> c.metadata.child_category,
   title |-> c.metadata.title,
   content_type |-> ContentTypeValue(c.metadata.content_type)]

\* the metadata add_image_documents stores for one ImageDocument
ImageItemMetadata(d) ==
  [image_path |-> d.metadata.image_path,
   source_file |-> d.metadata.source_file,
   description |-> d.description,
   content_type |-> ContentTypeValue(d.metadata.content_type)]

\* add_chunks storing a blank item when it is given no chunk
add_chunks_padding(coll, chunks) ==
  IF chunks = << >>
  THEN Append(coll, [id |-> << "item", 0 >>, document |-> "",
                     metadata |-> [content_type |-> "text"],
                     embedding |-> EmbeddingFunction("")])
  ELSE coll \o [i \in 1..Len(chunks) |->
                  [id |-> chunks[i].chunk_id,
                   document |-> chunks[i].text,
                   metadata |-> ChunkItemMetadata(chunks[i]),
                   embedding |-> EmbeddingFunction(chunks[i].text)]]

\* VectorStore.add_chunks: no-op on an empty list, else one item per chunk
add_chunks(coll, chunks) ==
  IF chunks = << >> THEN coll
  ELSE coll \o [i \in 1..Len(chunks) |->
                  [id |-> chunks[i].chunk_id,
                   document |-> chunks[i].text,
                   metadata |-> ChunkItemMetadata(chunks[i]),
                   embedding |-> EmbeddingFunction(chunks[i].text)]]

\* add_image_documents keyed by the image path: a document of a path the
\* store already holds replaces the stored item
add_image_documents_replacing(coll, docs) ==
  IF docs = << >> THEN coll
  ELSE LET kept == SelectSeq(coll, LAMBDA item :
                     \/ item.metadata.content_type # ContentTypeValue(IMAGE)
                     \/ \A i \in 1..Len(docs) :
                          item.metadata.image_path # docs[i].metadata.image_path)
       IN kept \o [i \in 1..Len(docs) |->
                    [id |-> docs[i].doc_id,
                     document |-> docs[i].description,
                     metadata |-> ImageItemMetadata(docs[i]),
                     embedding |-> EmbeddingFunction(docs[i].description)]]

\* VectorStore.add_image_documents
add_image_documents(coll, docs) ==
  IF docs = << >> THEN coll
  ELSE coll \o [i \in 1..Len(docs) |->
                  [id |-> docs[i].doc_id,
                   document |-> docs[i].description,
                   metadata |-> ImageItemMetadata(docs[i]),
                   embedding |-> EmbeddingFunction(docs[i].description)]]

\* the distance the index reports for an item and a query text
Distance(item, query_text) ==
  CosineDistance(item.embedding, EmbeddingFunction(query_text))

\* collection.query(query_texts=[q], n_results=n): every answer the index may
\* give: n distinct items, nearest first, none farther than an item left out
\* (items at equal distance come in either order).  NearestFirst lists the
\* positions of the n nearest items not yet taken.
RECURSIVE NearestFirst(_, _, _, _)
NearestFirst(coll, query_text, n, taken) ==
  IF n = 0 THEN {<< >>}
  ELSE LET rest == (1..Len(coll)) \ taken
           nearest == {x \in rest : \A y \in rest :
                         Distance(coll[x], query_text) <= Distance(coll[y], query_text)}
       IN UNION {{<< x >> \o t : t \in NearestFirst(coll, query_text, n - 1, taken \cup {x})} :
                   x \in nearest}

Query(coll, query_text, n) == NearestFirst(coll, query_text, n, {})

\* the loop of search keeping the distance as the score
ToSearchResultsRawDistance(coll, query_text, s) ==
  [i \in 1..Len(s) |->
     [content |-> coll[s[i]].document,
      score |-> Distance(coll[s[i]], query_text),
      metadata |-> coll[s[i]].metadata,
      content_type |-> ContentType(Get(coll[s[i]].metadata, "content_type", "text"))]]

\* the loop of VectorStore.search over one answer of the index
ToSearchResults(coll, query_text, s) ==
  [i \in 1..Len(s) |->
     [content |-> coll[s[i]].document,
      score |-> 10 - Distance(coll[s[i]], query_text),
      metadata |-> coll[s[i]].metadata,
      content_type |-> ContentType(Get(coll[s[i]].metadata, "content_type", "text"))]]

\* VectorStore.search: the set of result lists it may return
search(coll, query_text, k) ==
  IF Len(coll) = 0 THEN {<< >>}
  ELSE {ToSearchResults(coll, query_text, s) :
          s \in Query(coll, query_text, Min(k, Len(coll)))}

\* is_empty with the comparison inverted
is_empty_inverted(coll) == Len(coll) # 0

\* VectorStore.is_empty
is_empty(coll) == Len(coll) = 0

(***************************************************************************)
(* services/chat_service.py: the pure parts                                *)
(***************************************************************************)
NOT_BUILT == "knowledge base not built"
FAILED == "answer generation failed"
SYSTEM_PROMPT == "SYSTEM_PROMPT"

\* _build_sources copying the image path whatever the content kind
_build_sources_any_kind(search_results) ==
  [i \in 1..Len(search_results) |->
     [content |-> search_results[i].content,
      source_file |-> Get(search_results[i].metadata, "source_file", ""),
      content_type |-> search_results[i].content_type,
      score |-> search_results[i].score,
      image_path |-> Get(search_results[i].metadata, "image_path", None)]]

\* ChatService._build_sources
_build_sources(search_results) ==
  [i \in 1..Len(search_results) |->
     [content |-> search_results[i].content,
      source_file |-> Get(search_results[i].metadata, "source_file", ""),
      content_type |-> search_results[i].content_type,
      score |-> search_results[i].score,
      image_path |-> IF search_results[i].content_type = IMAGE
                     THEN Get(search_results[i].metadata, "image_path", None)
                     ELSE None]]

\* _build_prompt placing the prior turns before the retrieved context
_build_prompt_history_first(question, context, history) ==
  << [role |-> "system", content |-> SYSTEM_PROMPT] >>
  \o [j \in 1..(2 * Len(history)) |->
        IF j % 2 = 1
        THEN [role |-> "user", content |-> history[(j + 1) \div 2].question]
        ELSE [role |-> "assistant", content |-> history[j \div 2].answer]]
  \o (IF context # << >>
      THEN << [role |-> "system",
               content |-> << "FAQ context" >> \o
                           [i \in 1..Len(context) |-> << i, context[i].content >>]] >>
      ELSE << >>)
  \o << [role |-> "user", content |-> question] >>

\* ChatService._build_prompt: the message list sent to the provider.  The
\* context message is the fixed heading followed by the numbered contents.
_build_prompt(question, context, history) ==
  << [role |-> "system", content |-> SYSTEM_PROMPT] >>
  \o (IF context # << >>
      THEN << [role |-> "system",
               content |-> << "FAQ context" >> \o
                           [i \in 1..Len(context) |-> << i, context[i].content >>]] >>
      ELSE << >>)
  \o [j \in 1..(2 * Len(history)) |->
        IF j % 2 = 1
        THEN [role |-> "user", content |-> history[(j + 1) \div 2].question]
        ELSE [role |-> "assistant", content |-> history[j \div 2].answer]]
  \o << [role |-> "user", content |-> question] >>

(***************************************************************************)
(* services/session_manager.py over the "sessions" collection: a list of   *)
(* documents in insertion order; a filter matches the first document with  *)
(* the session id.                                                         *)
(***************************************************************************)

\* SourceInfo as stored: model_dump, the enum written as its value
DumpSource(src) ==
  [content |-> src.content,
   source_file |-> src.source_file,
   content_type |-> ContentTypeValue(src.content_type),
   score |-> src.score,
   image_path |-> src.image_path]

\* ChatMessage.model_dump as written by $push
model_dump(message) ==
  [question |-> message.question,
   answer |-> message.answer,
   sources |-> [i \in 1..Len(message.sources) |-> DumpSource(message.sources[i])],
   timestamp |-> message.timestamp]

\* SourceInfo read back: the enum parsed from its value
ValidateSource(d) ==
  [content |-> d.content,
   source_file |-> d.source_file,
   content_type |-> ContentType(d.content_type),
   score |-> d.score,
   image_path |-> d.image_path]

\* ChatMessage.model_validate
model_validate(m) ==
  [question |-> m.question,
   answer |-> m.answer,
   sources |-> [i \in 1..Len(m.sources) |-> ValidateSource(m.sources[i])],
   timestamp |-> m.timestamp]

\* add_message dropping the sources of the turn
NewChatMessageNoSources(question, answer, sources, now) ==
  [question |-> question, answer |-> answer, sources |-> << >>, timestamp |-> now]

\* the ChatMessage add_message builds at instant now
NewChatMessage(question, answer, sources, now) ==
  [question |-> question, answer |-> answer, sources |-> sources, timestamp |-> now]

\* positions of the documents matching {"session_id": session_id}
Matching(docs, session_id) ==
  {i \in 1..Len(docs) : docs[i].session_id = session_id}

FirstMatch(docs, session_id) ==
  CHOOSE i \in Matching(docs, session_id) :
    \A j \in Matching(docs, session_id) : i <= j

Exists(docs, session_id) == Matching(docs, session_id) # {}

\* insert_one of create_session
insert_one(docs, session_id, now) ==
  Append(docs, [session_id |-> session_id, messages |-> << >>, created_at |-> now])

\* update_one with upsert=True: a document is inserted when none matches
update_one_push_upsert(docs, session_id, m) ==
  IF ~Exists(docs, session_id)
  THEN Append(docs, [session_id |-> session_id, messages |-> << m >>])
  ELSE [docs EXCEPT ![FirstMatch(docs, session_id)].messages = Append(@, m)]

\* $set of a one-message array where add_message pushes: the stored
\* messages are overwritten
update_one_set(docs, session_id, m) ==
  IF ~Exists(docs, session_id) THEN docs
  ELSE [docs EXCEPT ![FirstMatch(docs, session_id)].messages = << m >>]

\* $push with $position 0: the new message goes in front of the stored ones
update_one_push_front(docs, session_id, m) ==
  IF ~Exists(docs, session_id) THEN docs
  ELSE [docs EXCEPT ![FirstMatch(docs, session_id)].messages = << m >> \o @]

\* update_one({"session_id": id}, {"$push": {"messages": m}}): first match, no upsert
update_one_push(docs, session_id, m) ==
  IF ~Exists(docs, session_id) THEN docs
  ELSE [docs EXCEPT ![FirstMatch(docs, session_id)].messages = Append(@, m)]

\* an update emptying the document's messages where delete_one removes it
delete_one_clearing_messages(docs, session_id) ==
  IF ~Exists(docs, session_id) THEN docs
  ELSE [docs EXCEPT ![FirstMatch(docs, session_id)].messages = << >>]

\* delete_one({"session_id": id})
delete_one(docs, session_id) ==
  IF ~Exists(docs, session_id) THEN docs
  ELSE [i \in 1..(Len(docs) - 1) |->
          IF i < FirstMatch(docs, session_id) THEN docs[i] ELSE docs[i + 1]]

\* Python's s[start:]
SliceFrom(s, start) ==
  LET n == Len(s)
      lo == IF start < 0 THEN (IF n + start < 0 THEN 0 ELSE n + start)
            ELSE Min(start, n)
  IN [i \in 1..(n - lo) |-> s[lo + i]]

\* get_recent_history reading with an empty filter when no document matches
get_recent_history_any_document(docs, session_id, n) ==
  IF docs = << >> THEN << >>
  ELSE LET messages_data == IF Exists(docs, session_id)
                            THEN docs[FirstMatch(docs, session_id)].messages
                            ELSE docs[1].messages
           recent == IF Len(messages_data) > n
                     THEN SliceFrom(messages_data, 0 - n)
                     ELSE messages_data
       IN [i \in 1..Len(recent) |-> model_validate(recent[i])]

\* SessionManager.get_recent_history
get_recent_history(docs, session_id, n) ==
  IF ~Exists(docs, session_id) THEN << >>
  ELSE LET messages_data == docs[FirstMatch(docs, session_id)].messages
           recent == IF Len(messages_data) > n
                     THEN SliceFrom(messages_data, 0 - n)
                     ELSE messages_data
       IN [i \in 1..Len(recent) |-> model_validate(recent[i])]

\* get_full_history reading with an empty filter when no document matches
get_full_history_any_document(docs, session_id) ==
  IF docs = << >> THEN << >>
  ELSE LET messages_data == IF Exists(docs, session_id)
                            THEN docs[FirstMatch(docs, session_id)].messages
                            ELSE docs[1].messages
       IN [i \in 1..Len(messages_data) |-> model_validate(messages_data[i])]

\* SessionManager.get_full_history
get_full_history(docs, session_id) ==
  IF ~Exists(docs, session_id) THEN << >>
  ELSE LET messages_data == docs[FirstMatch(docs, session_id)].messages
       IN [i \in 1..Len(messages_data) |-> model_validate(messages_data[i])]

\* DeleteResult.deleted_count of delete_one
deleted_count(docs, session_id) == IF Exists(docs, session_id) THEN 1 ELSE 0

\* SessionManager.delete_session: the store after it and the value returned
delete_session(docs, session_id) ==
  [docs |-> delete_one(docs, session_id),
   result |-> deleted_count(docs, session_id) > 0]

\* the last_message of a session without messages
NEW_CHAT == "new chat"

\* last_message[:50] + ("..." if len(last_message) > 50 else "")
Preview(last_message) ==
  SubSeq(last_message, 1, Min(50, Len(last_message)))
  \o (IF Len(last_message) > 50 THEN "..." ELSE "")

\* one element of the list get_all_sessions builds
Summary(doc) ==
  LET messages == Get(doc, "messages", << >>)
      last_message == IF messages # << >> THEN messages[Len(messages)].question
                      ELSE NEW_CHAT
  IN [session_id |-> doc.session_id,
      created_at |-> doc.created_at,
      message_count |-> Len(messages),
      last_message |-> Preview(last_message)]

\* find().sort("created_at", -1): the orders the cursor may yield the
\* documents in, newest first (documents of equal created_at come in either
\* order)
RECURSIVE NewestFirst(_, _)
NewestFirst(docs, taken) ==
  LET rest == (1..Len(docs)) \ taken
      newest == {x \in rest : \A y \in rest : docs[x].created_at >= docs[y].created_at}
  IN IF rest = {} THEN {<< >>}
     ELSE UNION {{<< x >> \o t : t \in NewestFirst(docs, taken \cup {x})} : x \in newest}

\* get_all_sessions reading the cursor in ascending order
get_all_sessions_ascending(docs) ==
  {[i \in 1..Len(order) |-> Summary(docs[order[Len(order) + 1 - i]])] :
     order \in NewestFirst(docs, {})}

\* SessionManager.get_all_sessions: the lists it may return
get_all_sessions(docs) ==
  {[i \in 1..Len(order) |-> Summary(docs[order[i]])] : order \in NewestFirst(docs, {})}

(***************************************************************************)
(* State                                                                   *)
(***************************************************************************)
VARIABLES
  collection,   \* the Chroma collection "faq_documents": list of items
  sessions,     \* the MongoDB collection "sessions": list of documents
  clock,        \* the last instant datetime.now(timezone.utc) returned
  issued,       \* the values uuid4 has returned so far, in order
  call,         \* the answer() coroutines: position, locals (dropped when the
                \* call returns), result, and a record of what the call did
  out,          \* the last direct call of a store operation and its result
  written,      \* per session id, the turns given to add_message since the
                \* session was created, in order
  request       \* the GET /api/sessions/{id} handler in flight: position,
                \* locals, response, and what its reads found

vars == << collection, sessions, clock, issued, call, out, written, request >>

\* datetime.now(timezone.utc): the instants a reading of the clock may
\* return after it last returned t (the clock does not run backwards; two
\* readings may return the same instant)
now(t) == t..MaxClock

\* str(uuid.uuid4()) values
UUIDs == {<< "uuid", i >> : i \in 1..MaxSessions}
NoSession == << "none", 0 >>

\* an id generator that may repeat a value
uuid4_repeating(used) == UUIDs

\* the values uuid4 may return: a random 122-bit value, never one it has
\* returned before; the ids being opaque, the unused one of least index
\* stands for any of them
uuid4(used) ==
  {u \in UUIDs \ Range(used) : \A v \in UUIDs \ Range(used) : u[2] <= v[2]}

\* models.py Chunk, as ingestion builds it: the given id and text, kind text
ChunkOf(id, text) ==
  [chunk_id |-> id,
   text |-> text,
   metadata |-> [source_file |-> "faq.xlsx", sheet_name |-> "Sheet1",
                 row_number |-> 1, parent_category |-> "parent",
                 child_category |-> "child", title |-> text,
                 content_type |-> TEXT]]

\* models.py ImageDocument, as ingestion builds it: the given id and description
ImageDocOf(id, description) ==
  [doc_id |-> id,
   description |-> description,
   metadata |-> [image_path |-> "images/pic.png", source_file |-> "pic.png",
                 content_type |-> IMAGE]]

IdleCall ==
  [pc |-> "idle", question |-> None, session_id |-> NoSession,
   search_results |-> << >>, messages |-> << >>, content |-> None,
   sources |-> << >>, message |-> << >>, response |-> << >>,
   trace |-> << >>, started_empty |-> FALSE, raised_in |-> None,
   retrieved |-> 0, live |-> FALSE, appended |-> << >>]

\* ChatResponse
ChatResponse(answer, sources, session_id) ==
  [answer |-> answer, sources |-> sources, session_id |-> session_id]

NoOut == [op |-> "none"]

NoRequest == [pc |-> "idle"]

Init ==
  /\ collection = << >>
  /\ sessions = << >>
  /\ clock = 0
  /\ issued = << >>
  /\ call = [c \in Calls |-> IdleCall]
  /\ out = NoOut
  /\ written = [s \in UUIDs |-> << >>]
  /\ request = NoRequest

\* messages of the session document, << >> when there is none
MessagesOf(docs, session_id) ==
  IF Exists(docs, session_id) THEN docs[FirstMatch(docs, session_id)].messages
  ELSE << >>

(***************************************************************************)
(* ChatService.answer, one action per stretch between suspension points    *)
(***************************************************************************)

\* the except branch of answer
FailedResponse(session_id) == ChatResponse(FAILED, << >>, session_id)

\* the is_empty branch of answer
NotBuiltResponse(session_id) == ChatResponse(NOT_BUILT, << >>, session_id)

\* answer is called: is_empty, then search (which never suspends)
Begin(c, question, session_id) ==
  /\ call[c].pc = "idle"
  /\ \/ \* is_empty raises: outside the try block
        call' = [call EXCEPT ![c] =
                   [IdleCall EXCEPT !.pc = "raised", !.question = question,
                                    !.session_id = session_id,
                                    !.started_empty = (Len(collection) = 0),
                                    !.raised_in = "is_empty",
                                    !.trace = << "is_empty" >>]]
     \/ /\ is_empty(collection)
        /\ call' = [call EXCEPT ![c] =
                   [IdleCall EXCEPT !.pc = "done", !.question = question,
                                    !.session_id = session_id,
                                    !.started_empty = (Len(collection) = 0),
                                    !.trace = << "is_empty" >>,
                                    !.response = NotBuiltResponse(session_id)]]
     \/ /\ ~is_empty(collection)
        /\ \/ \* search raises
              call' = [call EXCEPT ![c] =
                   [IdleCall EXCEPT !.pc = "done", !.question = question,
                                    !.session_id = session_id,
                                    !.started_empty = (Len(collection) = 0),
                                    !.raised_in = "search",
                                    !.trace = << "is_empty", "search" >>,
                                    !.response = FailedResponse(session_id)]]
           \/ \E r \in search(collection, question, top_k) :
              call' = [call EXCEPT ![c] =
                   [IdleCall EXCEPT !.pc = "recall", !.question = question,
                                    !.session_id = session_id,
                                    !.trace = << "is_empty", "search" >>,
                                    !.started_empty = (Len(collection) = 0),
                                    !.search_results = r,
                                    !.retrieved = Len(r),
                                    !.live = Exists(sessions, session_id)]]
  /\ UNCHANGED << collection, sessions, clock, issued, out, written, request >>

\* answer holding a per-session lock from its history read to its append:
\* the read waits while another call on the session is in between
RecallUnderSessionLock(c) ==
  /\ call[c].pc = "recall"
  /\ \A d \in Calls \ {c} :
       ~(call[d].session_id = call[c].session_id
         /\ call[d].pc \in {"generate", "persist"})
  /\ \/ call' = [call EXCEPT ![c].pc = "done",
                             ![c].trace = Append(@, "get_recent_history"),
                             ![c].raised_in = "get_recent_history",
                             ![c].search_results = << >>,
                             ![c].response = FailedResponse(call[c].session_id)]
     \/ LET history == get_recent_history(sessions, call[c].session_id, history_limit)
        IN call' = [call EXCEPT ![c].pc = "generate",
                                ![c].trace = Append(@, "get_recent_history"),
                                ![c].messages =
                                   _build_prompt(call[c].question,
                                                 call[c].search_results, history)]
  /\ UNCHANGED << collection, sessions, clock, issued, out, written, request >>

\* answer going on with an empty history when get_recent_history raises
RecallIgnoringFailure(c) ==
  /\ call[c].pc = "recall"
  /\ \/ call' = [call EXCEPT ![c].pc = "generate",
                             ![c].trace = Append(@, "get_recent_history"),
                             ![c].raised_in = "get_recent_history",
                             ![c].messages =
                                _build_prompt(call[c].question,
                                              call[c].search_results, << >>)]
     \/ LET history == get_recent_history(sessions, call[c].session_id, history_limit)
        IN call' = [call EXCEPT ![c].pc = "generate",
                                ![c].trace = Append(@, "get_recent_history"),
                                ![c].messages =
                                   _build_prompt(call[c].question,
                                                 call[c].search_results, history)]
  /\ UNCHANGED << collection, sessions, clock, issued, out, written, request >>

\* get_recent_history answers (or raises), then the prompt is built
Recall(c) ==
  /\ call[c].pc = "recall"
  /\ \/ call' = [call EXCEPT ![c].pc = "done",
                             ![c].trace = Append(@, "get_recent_history"),
                             ![c].raised_in = "get_recent_history",
                             ![c].search_results = << >>,
                             ![c].response = FailedResponse(call[c].session_id)]
     \/ LET history == get_recent_history(sessions, call[c].session_id, history_limit)
        IN call' = [call EXCEPT ![c].pc = "generate",
                                ![c].trace = Append(@, "get_recent_history"),
                                ![c].messages =
                                   _build_prompt(call[c].question,
                                                 call[c].search_results, history)]
  /\ UNCHANGED << collection, sessions, clock, issued, out, written, request >>

\* answer with the sources built before the try block's failure is handled:
\* a failed generation still returns the citations of the retrieval
GenerateKeepingSources(c) ==
  /\ call[c].pc = "generate"
  /\ \/ /\ call' = [call EXCEPT ![c].pc = "done",
                             ![c].trace = Append(@, "chat_completion"),
                             ![c].raised_in = "chat_completion",
                             ![c].search_results = << >>,
                             ![c].messages = << >>,
                             ![c].response =
                                ChatResponse(FAILED,
                                             _build_sources(call[c].search_results),
                                             call[c].session_id)]
        /\ clock' = clock
     \/ \E content \in Contents, t \in now(clock) :
          LET sources == _build_sources(call[c].search_results)
          IN /\ call' = [call EXCEPT ![c].pc = "persist",
                                  ![c].trace = Append(Append(@, "chat_completion"), "add_message"),
                                  ![c].content = content,
                                  ![c].sources = sources,
                                  ![c].message =
                                     NewChatMessage(call[c].question, content, sources, t)]
             /\ clock' = t
  /\ UNCHANGED << collection, sessions, issued, out, written, request >>

\* answer recording the turn in its except branch: a failed generation is
\* appended to the session with the failure text as its answer
GenerateRecordingFailure(c) ==
  /\ call[c].pc = "generate"
  /\ \/ /\ call' = [call EXCEPT ![c].pc = "done",
                             ![c].trace = Append(Append(@, "chat_completion"), "add_message"),
                             ![c].raised_in = "chat_completion",
                             ![c].search_results = << >>,
                             ![c].messages = << >>,
                             ![c].response = FailedResponse(call[c].session_id)]
        /\ sessions' = update_one_push(sessions, call[c].session_id,
                           model_dump(NewChatMessage(call[c].question, FAILED,
                                                     << >>, clock)))
        /\ clock' = clock
     \/ \E content \in Contents, t \in now(clock) :
          LET sources == _build_sources(call[c].search_results)
          IN /\ call' = [call EXCEPT ![c].pc = "persist",
                                  ![c].trace = Append(Append(@, "chat_completion"), "add_message"),
                                  ![c].content = content,
                                  ![c].sources = sources,
                                  ![c].message =
                                     NewChatMessage(call[c].question, content, sources, t)]
             /\ clock' = t
             /\ sessions' = sessions
  /\ UNCHANGED << collection, issued, out, written, request >>

\* chat_completion answers (or raises); the sources are built and add_message
\* builds its ChatMessage, reading the clock, before it awaits update_one
Generate(c) ==
  /\ call[c].pc = "generate"
  /\ \/ /\ call' = [call EXCEPT ![c].pc = "done",
                             ![c].trace = Append(@, "chat_completion"),
                             ![c].raised_in = "chat_completion",
                             ![c].search_results = << >>,
                             ![c].messages = << >>,
                             ![c].response = FailedResponse(call[c].session_id)]
        /\ clock' = clock
     \/ \E content \in Contents, t \in now(clock) :
          LET sources == _build_sources(call[c].search_results)
          IN /\ call' = [call EXCEPT ![c].pc = "persist",
                                  ![c].trace = Append(Append(@, "chat_completion"), "add_message"),
                                  ![c].content = content,
                                  ![c].sources = sources,
                                  ![c].message =
                                     NewChatMessage(call[c].question, content, sources, t)]
             /\ clock' = t
  /\ UNCHANGED << collection, sessions, issued, out, written, request >>

\* the messages the step added to the session's document
Added(old, new, session_id) ==
  IF Exists(new, session_id) /\ Exists(old, session_id)
     /\ Len(MessagesOf(new, session_id)) > Len(MessagesOf(old, session_id))
  THEN SubSeq(MessagesOf(new, session_id),
              Len(MessagesOf(old, session_id)) + 1, Len(MessagesOf(new, session_id)))
  ELSE << >>

\* answer with add_message outside the try block's reach: a failed append
\* is swallowed and the generated answer returned
PersistSwallowingFailure(c) ==
  /\ call[c].pc = "persist"
  /\ \E applied \in BOOLEAN, raises \in BOOLEAN :
       /\ applied \/ raises
       /\ sessions' = IF applied
                      THEN update_one_push(sessions, call[c].session_id,
                                           model_dump(call[c].message))
                      ELSE sessions
       /\ call' = [call EXCEPT
            ![c].pc = "done",
            ![c].raised_in = IF raises THEN "add_message" ELSE None,
            ![c].search_results = << >>,
            ![c].messages = << >>,
            ![c].sources = << >>,
            ![c].message = << >>,
            ![c].appended = Added(sessions, sessions', call[c].session_id),
            ![c].response =
               ChatResponse(call[c].content, call[c].sources, call[c].session_id)]
  /\ UNCHANGED << collection, clock, issued, out, written, request >>

\* update_one of add_message answers or raises (the push applied or not),
\* and answer returns
Persist(c) ==
  /\ call[c].pc = "persist"
  /\ \E applied \in BOOLEAN, raises \in BOOLEAN :
       /\ applied \/ raises
       /\ sessions' = IF applied
                      THEN update_one_push(sessions, call[c].session_id,
                                           model_dump(call[c].message))
                      ELSE sessions
       /\ call' = [call EXCEPT
            ![c].pc = "done",
            ![c].raised_in = IF raises THEN "add_message" ELSE None,
            ![c].search_results = << >>,
            ![c].messages = << >>,
            ![c].sources = << >>,
            ![c].message = << >>,
            ![c].appended = Added(sessions, sessions', call[c].session_id),
            ![c].response =
               IF raises THEN FailedResponse(call[c].session_id)
               ELSE ChatResponse(call[c].content, call[c].sources, call[c].session_id)]
  /\ UNCHANGED << collection, clock, issued, out, written, request >>

(***************************************************************************)
(* The other operations of the running service                             *)
(***************************************************************************)

\* SessionManager.create_session
CreateSession ==
  /\ \E session_id \in uuid4(issued), t \in now(clock) :
       /\ sessions' = insert_one(sessions, session_id, t)
       /\ issued' = Append(issued, session_id)
       /\ clock' = t
  /\ UNCHANGED << collection, call, out, written, request >>

\* SessionManager.delete_session
DeleteSession(session_id) ==
  /\ Exists(sessions, session_id)
  /\ sessions' = delete_one(sessions, session_id)
  /\ call' = [c \in Calls |->
                IF call[c].session_id = session_id
                THEN [call[c] EXCEPT !.live = FALSE] ELSE call[c]]
  /\ UNCHANGED << collection, clock, issued, out, written, request >>

\* what ingest_all finds in the data directories: one FAQ row, one image
Corpus == << "A", "N" >>

\* ingest_all stores the chunk of the FAQ file (it reads the FAQ files first)
IngestChunk ==
  /\ Len(collection) = 0
  /\ collection' = add_chunks(collection,
                              << ChunkOf(<< "item", 1 >>, Corpus[1]) >>)
  /\ UNCHANGED << sessions, clock, issued, call, out, written, request >>

\* ingest_all stores the document of the image (it reads the images last)
IngestImage ==
  /\ Len(collection) = 1
  /\ collection' = add_image_documents(collection,
                              << ImageDocOf(<< "item", 2 >>, Corpus[2]) >>)
  /\ UNCHANGED << sessions, clock, issued, call, out, written, request >>

Next ==
  \/ \E c \in Calls, s \in UUIDs : Begin(c, Asks[c], s)
  \/ \E c \in Calls : Recall(c)
  \/ \E c \in Calls : Generate(c)
  \/ \E c \in Calls : Persist(c)
  \/ CreateSession
  \/ \E s \in UUIDs : DeleteSession(s)
  \/ IngestChunk
  \/ IngestImage

Spec == Init /\ [][Next]_vars

(***************************************************************************)
(* The session store called directly, as the routes and the tests call it  *)
(* (specification SpecSession)                                             *)
(***************************************************************************)

\* a SourceInfo list a caller may hand to add_message
SourceList ==
  << [content |-> "N", source_file |-> "pic.png", content_type |-> IMAGE,
      score |-> 9, image_path |-> "images/pic.png"],
     [content |-> "A", source_file |-> "faq.xlsx", content_type |-> TEXT,
      score |-> 4, image_path |-> None] >>

\* the number of messages in all documents
RECURSIVE StoredMessages(_)
StoredMessages(docs) ==
  IF docs = << >> THEN 0
  ELSE Len(Head(docs).messages) + StoredMessages(Tail(docs))

\* questions of exactly 50 and of 51 characters
Question50 == "01234567890123456789012345678901234567890123456789"
Question51 == "01234567890123456789012345678901234567890123456789X"

\* the turns a caller may hand to add_message
Turns ==
  { [question |-> Question50, answer |-> "a1", sources |-> << >>],
    [question |-> Question51, answer |-> "a1", sources |-> SourceList] }

\* SessionManager.create_session, its return value kept
CreateSessionCall ==
  /\ \E session_id \in uuid4(issued), t \in now(clock) :
       /\ sessions' = insert_one(sessions, session_id, t)
       /\ issued' = Append(issued, session_id)
       /\ clock' = t
       /\ out' = [op |-> "create_session", result |-> session_id]
  /\ UNCHANGED << collection, call, written, request >>

\* add_message inserting a document when the session id matches none
AddMessageCreating(session_id, question, answer, sources) ==
  /\ StoredMessages(sessions) < MaxMessages
  /\ \E t \in now(clock) :
       /\ sessions' = IF Exists(sessions, session_id)
                      THEN update_one_push(sessions, session_id,
                             model_dump(NewChatMessage(question, answer, sources, t)))
                      ELSE insert_one(sessions, session_id, t)
       /\ clock' = t
  /\ written' = IF Exists(sessions, session_id)
                THEN [written EXCEPT ![session_id] =
                        Append(@, [question |-> question, answer |-> answer,
                                   sources |-> sources])]
                ELSE written
  /\ out' = [op |-> "add_message", session_id |-> session_id, result |-> None]
  /\ UNCHANGED << collection, issued, call, request >>

\* SessionManager.add_message (it returns None)
AddMessage(session_id, question, answer, sources) ==
  /\ StoredMessages(sessions) < MaxMessages
  /\ \E t \in now(clock) :
       /\ sessions' = update_one_push(sessions, session_id,
                        model_dump(NewChatMessage(question, answer, sources, t)))
       /\ clock' = t
  /\ written' = IF Exists(sessions, session_id)
                THEN [written EXCEPT ![session_id] =
                        Append(@, [question |-> question, answer |-> answer,
                                   sources |-> sources])]
                ELSE written
  /\ out' = [op |-> "add_message", session_id |-> session_id, result |-> None]
  /\ UNCHANGED << collection, issued, call, request >>

\* SessionManager.get_recent_history
GetRecentHistory(session_id, n) ==
  /\ out' = [op |-> "get_recent_history", session_id |-> session_id, n |-> n,
             log |-> written[session_id],
             result |-> get_recent_history(sessions, session_id, n)]
  /\ UNCHANGED << collection, sessions, clock, issued, call, written, request >>

\* SessionManager.get_full_history
GetFullHistory(session_id) ==
  /\ out' = [op |-> "get_full_history", session_id |-> session_id,
             result |-> get_full_history(sessions, session_id)]
  /\ UNCHANGED << collection, sessions, clock, issued, call, written, request >>

\* the DELETE /api/sessions/{id} route: the status it answers with
DeleteStatus(success) == IF success THEN 200 ELSE 404

\* SessionManager.delete_session under its route; removed is the number of
\* messages the removed document held
DeleteSessionCall(session_id) ==
  /\ sessions' = delete_session(sessions, session_id).docs
  /\ written' = [written EXCEPT ![session_id] = << >>]
  /\ out' = [op |-> "delete_session", session_id |-> session_id,
             result |-> delete_session(sessions, session_id).result,
             status |-> DeleteStatus(delete_session(sessions, session_id).result),
             removed |-> Len(MessagesOf(sessions, session_id))]
  /\ UNCHANGED << collection, clock, issued, call, request >>

\* SessionManager.get_all_sessions
GetAllSessions ==
  /\ \E r \in get_all_sessions(sessions) :
       out' = [op |-> "get_all_sessions", result |-> r]
  /\ UNCHANGED << collection, sessions, clock, issued, call, written, request >>

NextSession ==
  \/ CreateSessionCall
  \/ \E s \in UUIDs, turn \in Turns :
       AddMessage(s, turn.question, turn.answer, turn.sources)
  \/ \E s \in UUIDs, n \in 0..MaxN : GetRecentHistory(s, n)
  \/ \E s \in UUIDs : GetFullHistory(s)
  \/ \E s \in UUIDs : DeleteSessionCall(s)
  \/ GetAllSessions

SpecSession == Init /\ [][NextSession]_vars

(***************************************************************************)
(* The GET /api/sessions/{id} route beside the operations that write the   *)
(* store (specification SpecHistoryRoute).  The handler awaits twice:      *)
(* get_full_history, then, when that returned no message, find_one.        *)
(***************************************************************************)

\* SessionHistoryResponse
SessionHistoryResponse(session_id, messages) ==
  [session_id |-> session_id,
   messages |-> [i \in 1..Len(messages) |-> model_dump(messages[i])]]

\* HTTPException(status_code=404, detail=...)
NOT_FOUND == [detail |-> "session not found"]

\* get_session_history is called and get_full_history answers; first and log
\* keep what that read found (whether the document existed, and the turns
\* written to it), second what the find_one of the handler finds
GetSessionHistoryRead(session_id) ==
  /\ request.pc = "idle"
  /\ LET messages == get_full_history(sessions, session_id)
     IN request' =
          IF messages # << >>
          THEN [pc |-> "done", session_id |-> session_id, status |-> 200,
                response |-> SessionHistoryResponse(session_id, messages),
                first |-> Exists(sessions, session_id),
                second |-> "not read", log |-> written[session_id]]
          ELSE [pc |-> "find_one", session_id |-> session_id, status |-> 0,
                response |-> None,
                first |-> Exists(sessions, session_id),
                second |-> "not read", log |-> written[session_id]]
  /\ UNCHANGED << collection, sessions, clock, issued, call, out, written >>

\* the handler answering 404 whenever the history is empty
GetSessionHistoryCheckEmptyAs404 ==
  /\ request.pc = "find_one"
  /\ request' = [request EXCEPT !.pc = "done", !.status = 404,
                                !.response = NOT_FOUND,
                                !.second = IF Exists(sessions, request.session_id)
                                           THEN "found" ELSE "missing"]
  /\ UNCHANGED << collection, sessions, clock, issued, call, out, written >>

\* find_one answers: 404 when there is no document, else the empty history
GetSessionHistoryCheck ==
  /\ request.pc = "find_one"
  /\ request' =
       IF ~Exists(sessions, request.session_id)
       THEN [request EXCEPT !.pc = "done", !.status = 404,
                            !.response = NOT_FOUND, !.second = "missing"]
       ELSE [request EXCEPT !.pc = "done", !.status = 200,
                            !.response =
                               SessionHistoryResponse(request.session_id, << >>),
                            !.second = "found"]
  /\ UNCHANGED << collection, sessions, clock, issued, call, out, written >>

\* the id the request names: the ids being opaque, the first one uuid4
\* returns stands for any of them
RequestedId == << "uuid", 1 >>

NextHistoryRoute ==
  \/ CreateSession
  \/ \E s \in UUIDs, turn \in Turns :
       AddMessage(s, turn.question, turn.answer, turn.sources)
  \/ \E s \in UUIDs : DeleteSessionCall(s)
  \/ GetSessionHistoryRead(RequestedId)
  \/ GetSessionHistoryCheck

SpecHistoryRoute == Init /\ [][NextHistoryRoute]_vars

(***************************************************************************)
(* The POST /api/chat route on any JSON body (specification SpecChatRoute):*)
(* the body is validated against ChatRequest before the handler runs.      *)
(***************************************************************************)

\* JSON values a field of the body may hold
JsonValues ==
  { [type |-> "string", value |-> ""],
    [type |-> "string", value |-> " "],
    [type |-> "string", value |-> "q1"],
    [type |-> "string", value |-> "q2"],
    [type |-> "integer", value |-> "5"],
    [type |-> "array", value |-> "[1]"],
    [type |-> "null", value |-> "null"] }

ChatRequestFields == << "question", "session_id" >>

\* JSON objects with any of the two fields
ChatBodies ==
  UNION { [keys -> JsonValues] : keys \in SUBSET Range(ChatRequestFields) }

\* a str field declared Field(..., min_length=1) accepting a value of any
\* length
ValidateFieldAnyLength(body, name) ==
  IF name \notin DOMAIN body THEN << [type |-> "missing", loc |-> << "body", name >>] >>
  ELSE IF body[name].type # "string"
  THEN << [type |-> "string_type", loc |-> << "body", name >>] >>
  ELSE << >>

\* ChatRequest: the errors of one field declared str = Field(..., min_length=1)
ValidateField(body, name) ==
  IF name \notin DOMAIN body THEN << [type |-> "missing", loc |-> << "body", name >>] >>
  ELSE IF body[name].type # "string"
  THEN << [type |-> "string_type", loc |-> << "body", name >>] >>
  ELSE IF Len(body[name].value) < 1
  THEN << [type |-> "string_too_short", loc |-> << "body", name >>] >>
  ELSE << >>

\* ChatRequest: the validation errors of a body, in field order
ValidateChatRequest(body) ==
  ValidateField(body, ChatRequestFields[1]) \o ValidateField(body, ChatRequestFields[2])

InitChatRoute ==
  /\ collection = << >>
  /\ sessions = << >>
  /\ clock = 0
  /\ issued = << >>
  /\ call = [c \in Calls |-> IdleCall]
  /\ written = [s \in UUIDs |-> << >>]
  /\ request = NoRequest
  /\ \E body \in ChatBodies : out = [op |-> "input", body |-> body]

\* POST /api/chat: 422 with the errors when the body is no ChatRequest, else
\* the handler awaits answer(question, session_id) and returns its response;
\* answered lists the calls of answer made for the request
PostChat ==
  /\ out.op = "input"
  /\ out' =
       IF ValidateChatRequest(out.body) # << >>
       THEN [op |-> "chat", body |-> out.body, status |-> 422,
             response |-> [detail |-> ValidateChatRequest(out.body)],
             answered |-> << >>]
       ELSE [op |-> "chat", body |-> out.body, status |-> 200,
             response |-> [answer_to |-> out.body.question.value,
                           session_id |-> out.body.session_id.value],
             answered |-> << [question |-> out.body.question.value,
                              session_id |-> out.body.session_id.value] >>]
  /\ UNCHANGED << collection, sessions, clock, issued, call, written, request >>

NextChatRoute == PostChat

SpecChatRoute == InitChatRoute /\ [][NextChatRoute]_vars

(***************************************************************************)
(* etl/excel_reader.py: filtering the rows of a sheet and turning them     *)
(* into chunks (specification SpecEtl)                                     *)
(***************************************************************************)

\* ExcelReader.PUBLISH_STATUS (the source's text is Japanese for "published")
PUBLISH_STATUS == "published"

\* values of the status column
Statuses == {PUBLISH_STATUS, "unpublished"}

\* models.py FAQEntry: the rows a sheet may hold
FAQEntries ==
  { [no |-> no, status |-> status,
     parent_category |-> "parent", child_category |-> "child",
     title |-> << "T1", "T2" >>[no], body |-> << "B1", "B2" >>[no],
     source_file |-> "faq.xlsx", sheet_name |-> "Sheet1",
     row_number |-> no + 1] : no \in 1..2, status \in Statuses }

FAQEntryLists == UNION { [1..n -> FAQEntries] : n \in 0..MaxEntries }

\* filter_published keeping every row
filter_published_keeping_all(entries) ==
  SelectSeq(entries, LAMBDA e : TRUE)

\* ExcelReader.filter_published
filter_published(entries) ==
  SelectSeq(entries, LAMBDA e : e.status = PUBLISH_STATUS)

\* ExcelReader.faq_entry_to_chunk, chunk_id being the value uuid4 returned
faq_entry_to_chunk(entry, chunk_id) ==
  [chunk_id |-> chunk_id,
   text |-> entry.title \o "\n" \o entry.body,
   metadata |-> [source_file |-> entry.source_file,
                 sheet_name |-> entry.sheet_name,
                 row_number |-> entry.row_number,
                 parent_category |-> entry.parent_category,
                 child_category |-> entry.child_category,
                 title |-> entry.title,
                 content_type |-> TEXT]]

InitEtl ==
  /\ collection = << >>
  /\ sessions = << >>
  /\ clock = 0
  /\ issued = << >>
  /\ call = [c \in Calls |-> IdleCall]
  /\ written = [s \in UUIDs |-> << >>]
  /\ request = NoRequest
  /\ \E entries \in FAQEntryLists : out = [op |-> "input", entries |-> entries]

\* the rows of a sheet are filtered and each published row becomes a chunk
ToChunks ==
  /\ out.op = "input"
  /\ LET published == filter_published(out.entries)
     IN out' = [op |-> "to_chunks", entries |-> out.entries,
                published |-> published,
                chunks |-> [i \in 1..Len(published) |->
                              faq_entry_to_chunk(published[i], << "chunk", i >>)]]
  /\ UNCHANGED << collection, sessions, clock, issued, call, written, request >>

NextEtl == ToChunks

SpecEtl == InitEtl /\ [][NextEtl]_vars

(***************************************************************************)
(* etl/pipeline.py: ingest_images over a directory whose items may fail    *)
(* (specification SpecIngest).  For every image the environment fixes how  *)
(* a first and a second attempt at it would end.                           *)
(***************************************************************************)

\* how an attempt at one image ends: it is stored, or process_image raises,
\* or add_image_documents raises
Outcomes == {"ok", "process_image", "add_image_documents"}

\* list_images: the files of the directory, sorted
ImagePaths == [i \in 1..MaxImages |-> << "image", i >>]

\* the outcomes of the first and second attempt at each of n images
Plans(n) == [1..n -> [1..2 -> Outcomes]]

\* str(uuid.uuid4()) of the ETL: a value never returned before (the least
\* unused index stands for any of them)
uuid4_str(used) == << "item", Len(used) + 1 >>

\* ImageProcessor.process_image when describe_image returned description,
\* doc_id being the value uuid4 returned
process_image(image_path, doc_id, description) ==
  [doc_id |-> doc_id,
   description |-> description,
   metadata |-> [image_path |-> image_path, source_file |-> image_path,
                 content_type |-> IMAGE]]

\* the loop of ingest_images from image i on: one attempt at each image, an
\* exception counted as an error, then the next image; used are the ids
\* uuid4 has returned so far
RECURSIVE IngestFrom(_, _, _, _, _)
IngestFrom(coll, image_paths, plan, i, used) ==
  IF i > Len(image_paths)
  THEN [collection |-> coll, processed |-> 0, errors |-> 0, items |-> << >>,
        used |-> used]
  ELSE LET stored == plan[i][1] = "ok"
           described == plan[i][1] # "process_image"
           doc == process_image(image_paths[i], uuid4_str(used), "N")
           rest == IngestFrom(IF stored
                              THEN add_image_documents(coll, << doc >>)
                              ELSE coll,
                              image_paths, plan, i + 1,
                              IF described THEN Append(used, doc.doc_id) ELSE used)
       IN [collection |-> rest.collection,
           processed |-> rest.processed + (IF stored THEN 1 ELSE 0),
           errors |-> rest.errors + (IF stored THEN 0 ELSE 1),
           items |-> << [attempts |-> 1, stored |-> stored, error |-> ~stored] >>
                     \o rest.items,
           used |-> rest.used]

\* ingest_images without the try block in its loop: the first exception
\* ends the loop, the images after it are not attempted
ingest_images_stopping_at_failure(coll, image_paths, plan, used) ==
  IF image_paths = << >>
  THEN [collection |-> coll, items |-> << >>, used |-> used,
        result |-> [total_processed |-> 0, error_count |-> 0,
                    details |-> "no image found"]]
  ELSE LET failing == {i \in 1..Len(image_paths) : plan[i][1] # "ok"}
           last == IF failing = {} THEN Len(image_paths)
                   ELSE CHOOSE i \in failing : \A j \in failing : i <= j
           loop == IngestFrom(coll, SubSeq(image_paths, 1, last), plan, 1, used)
       IN [collection |-> loop.collection, items |-> loop.items,
           used |-> loop.used,
           result |-> [total_processed |-> loop.processed,
                       error_count |-> loop.errors,
                       details |-> << "images", loop.processed, loop.errors >>]]

\* ETLPipeline.ingest_images: the store after it, its IngestResult, what was
\* done with each image, and the ids uuid4 has returned
ingest_images(coll, image_paths, plan, used) ==
  IF image_paths = << >>
  THEN [collection |-> coll, items |-> << >>, used |-> used,
        result |-> [total_processed |-> 0, error_count |-> 0,
                    details |-> "no image found"]]
  ELSE LET loop == IngestFrom(coll, image_paths, plan, 1, used)
       IN [collection |-> loop.collection, items |-> loop.items,
           used |-> loop.used,
           result |-> [total_processed |-> loop.processed,
                       error_count |-> loop.errors,
                       details |-> << "images", loop.processed, loop.errors >>]]

InitIngest ==
  /\ collection = << >>
  /\ sessions = << >>
  /\ clock = 0
  /\ issued = << >>
  /\ call = [c \in Calls |-> IdleCall]
  /\ written = [s \in UUIDs |-> << >>]
  /\ request = NoRequest
  /\ \E n \in 0..MaxImages : \E plan \in Plans(n) :
       out = [op |-> "input", image_paths |-> SubSeq(ImagePaths, 1, n),
              plan |-> plan]

\* ETLPipeline.ingest_images
IngestImages ==
  /\ out.op = "input"
  /\ LET done == ingest_images(collection, out.image_paths, out.plan, issued)
     IN /\ collection' = done.collection
        /\ issued' = done.used
        /\ out' = [op |-> "ingest_images", image_paths |-> out.image_paths,
                   plan |-> out.plan, items |-> done.items,
                   result |-> done.result]
  /\ UNCHANGED << sessions, clock, call, written, request >>

NextIngest == IngestImages

SpecIngest == InitIngest /\ [][NextIngest]_vars

(***************************************************************************)
(* Repeated ingestion of the data directories: ingest_all and the upload   *)
(* route, run one after the other (specification SpecReingest)             *)
(***************************************************************************)

\* ingestion runs of one behaviour
MaxRuns == 2

\* the sheet of the FAQ file: a published row, then a row of either status
FaqSheets ==
  {entries \in [1..2 -> FAQEntries] :
     /\ entries[1].no = 1 /\ entries[1].status = PUBLISH_STATUS
     /\ entries[2].no = 2}

\* the file names an image upload may carry
ImageFiles == Range(ImagePaths)

\* ImageProcessor.list_images: the image files of the directory, sorted
list_images(files) ==
  [i \in 1..Cardinality(files) |->
     CHOOSE p \in files : Cardinality({q \in files : q[2] < p[2]}) = i - 1]

\* how ingest_excel ends: the chunks are stored, or reading the file raises,
\* or add_chunks raises
ExcelOutcomes == {"ok", "read_faq_excel", "add_chunks"}

\* ETLPipeline.ingest_excel: the store after it, its IngestResult and the ids
\* uuid4 has returned (one for every published row, in row order)
ingest_excel(coll, entries, outcome, used) ==
  IF outcome = "read_faq_excel"
  THEN [collection |-> coll, used |-> used,
        result |-> [total_processed |-> 0, error_count |-> 1,
                    details |-> "read error"]]
  ELSE LET published == filter_published(entries)
           chunks == [i \in 1..Len(published) |->
                        faq_entry_to_chunk(published[i],
                                           << "item", Len(used) + i >>)]
           used_after == used \o [i \in 1..Len(chunks) |-> chunks[i].chunk_id]
       IN IF chunks = << >>
          THEN [collection |-> coll, used |-> used,
                result |-> [total_processed |-> 0, error_count |-> 0,
                            details |-> "no published entry"]]
          ELSE IF outcome = "add_chunks"
          THEN [collection |-> coll, used |-> used_after,
                result |-> [total_processed |-> 0, error_count |-> 1,
                            details |-> "ingest error"]]
          ELSE [collection |-> add_chunks(coll, chunks), used |-> used_after,
                result |-> [total_processed |-> Len(chunks), error_count |-> 0,
                            details |-> << "chunks", Len(chunks) >>]]

\* ETLPipeline.ingest_all with one FAQ file: the file, then the images
ingest_all(coll, entries, image_paths, outcome, plan, used) ==
  LET excel == ingest_excel(coll, entries, outcome, used)
      images == ingest_images(excel.collection, image_paths, plan, excel.used)
  IN [collection |-> images.collection, used |-> images.used,
      result |-> [total_processed |-> excel.result.total_processed
                                        + images.result.total_processed,
                  error_count |-> excel.result.error_count
                                    + images.result.error_count,
                  details |-> << excel.result.details, images.result.details >>]]

\* the attempts at n images, one outcome each
FirstAttempts(n) ==
  {[i \in 1..n |-> << first[i], first[i] >>] : first \in [1..n -> Outcomes]}

InitReingest ==
  /\ collection = << >>
  /\ sessions = << >>
  /\ clock = 0
  /\ issued = << >>
  /\ call = [c \in Calls |-> IdleCall]
  /\ request = NoRequest
  /\ \E entries \in FaqSheets :
       written = [faq |-> entries, images |-> {ImagePaths[1]}]
  /\ out = [op |-> "none", ops |-> 0, runs |-> 0, clean |-> TRUE]

\* POST /api/ingest: ETLPipeline.ingest_all over the data directories
IngestAll ==
  /\ out.ops < MaxRuns
  /\ LET image_paths == list_images(written.images)
     IN \E outcome \in ExcelOutcomes, plan \in FirstAttempts(Len(image_paths)) :
          LET done == ingest_all(collection, written.faq, image_paths,
                                 outcome, plan, issued)
          IN /\ collection' = done.collection
             /\ issued' = done.used
             /\ out' = [op |-> "ingest_all", ops |-> out.ops + 1,
                        runs |-> out.runs + 1,
                        clean |-> /\ out.clean
                                  /\ outcome = "ok"
                                  /\ \A i \in 1..Len(plan) : plan[i][1] = "ok",
                        excel |-> outcome, image_paths |-> image_paths,
                        plan |-> plan, result |-> done.result]
  /\ UNCHANGED << sessions, clock, call, written, request >>

\* POST /api/upload of an image file: the file is saved in the image
\* directory, then ingest_images runs over the directory
UploadImage(filename) ==
  /\ out.ops < MaxRuns
  /\ LET image_paths == list_images(written.images \cup {filename})
     IN \E plan \in FirstAttempts(Len(image_paths)) :
          LET done == ingest_images(collection, image_paths, plan, issued)
          IN /\ written' = [written EXCEPT !.images = @ \cup {filename}]
             /\ collection' = done.collection
             /\ issued' = done.used
             /\ out' = [op |-> "upload_image", ops |-> out.ops + 1,
                        runs |-> out.runs, clean |-> FALSE,
                        filename |-> filename, image_paths |-> image_paths,
                        plan |-> plan, status |-> 200, result |-> done.result]
  /\ UNCHANGED << sessions, clock, call, request >>

\* POST /api/upload of the FAQ file: the file is saved, then ingest_excel
\* runs on it
UploadExcel ==
  /\ out.ops < MaxRuns
  /\ \E outcome \in ExcelOutcomes :
       LET done == ingest_excel(collection, written.faq, outcome, issued)
       IN /\ collection' = done.collection
          /\ issued' = done.used
          /\ out' = [op |-> "upload_excel", ops |-> out.ops + 1,
                     runs |-> out.runs, clean |-> FALSE,
                     excel |-> outcome, status |-> 200, result |-> done.result]
  /\ UNCHANGED << sessions, clock, call, written, request >>

\* POST /api/upload of a file with another extension: 400, nothing is saved
UploadUnsupported ==
  /\ out.ops < MaxRuns
  /\ out' = [op |-> "upload_unsupported", ops |-> out.ops + 1,
             runs |-> out.runs, clean |-> out.clean, status |-> 400]
  /\ UNCHANGED << collection, sessions, clock, issued, call, written, request >>

NextReingest ==
  \/ IngestAll
  \/ \E filename \in ImageFiles : UploadImage(filename)
  \/ UploadExcel
  \/ UploadUnsupported

SpecReingest == InitReingest /\ [][NextReingest]_vars

(***************************************************************************)
(* The vector store called directly (specification SpecSearch)            *)
(***************************************************************************)

\* lists of up to two chunks (image documents) with fresh ids, as ingestion
\* builds them
ChunkLists(base) ==
  { << >> }
  \cup { << ChunkOf(<< "item", base + 1 >>, t) >> : t \in Texts }
  \cup { << ChunkOf(<< "item", base + 1 >>, t1), ChunkOf(<< "item", base + 2 >>, t2) >> :
           t1 \in Texts, t2 \in Texts }

ImageDocLists(base) ==
  { << >>, << ImageDocOf(<< "item", base + 1 >>, "N") >> }

\* VectorStore.add_chunks
AddChunks(chunks) ==
  /\ Len(collection) + Len(chunks) <= MaxStored
  /\ collection' = add_chunks(collection, chunks)
  /\ out' = [op |-> "add_chunks", n |-> Len(chunks)]
  /\ UNCHANGED << sessions, clock, issued, call, written, request >>

\* VectorStore.add_image_documents
AddImageDocuments(docs) ==
  /\ Len(collection) + Len(docs) <= MaxStored
  /\ collection' = add_image_documents(collection, docs)
  /\ out' = [op |-> "add_image_documents", n |-> Len(docs)]
  /\ UNCHANGED << sessions, clock, issued, call, written, request >>

\* VectorStore.search
Search(query_text, k) ==
  /\ \E r \in search(collection, query_text, k) :
       out' = [op |-> "search", query_text |-> query_text, top_k |-> k,
               store |-> collection, result |-> r]
  /\ UNCHANGED << collection, sessions, clock, issued, call, written, request >>

\* VectorStore.is_empty
IsEmpty ==
  /\ out' = [op |-> "is_empty", result |-> is_empty(collection)]
  /\ UNCHANGED << collection, sessions, clock, issued, call, written, request >>

NextSearch ==
  \/ \E chunks \in ChunkLists(Len(collection)) : AddChunks(chunks)
  \/ \E docs \in ImageDocLists(Len(collection)) : AddImageDocuments(docs)
  \/ \E q \in Questions, k \in 1..MaxK : Search(q, k)
  \/ IsEmpty

SpecSearch == Init /\ [][NextSearch]_vars

(***************************************************************************)
(* _build_sources on any SearchResult list (specification SpecSources)     *)
(***************************************************************************)

\* metadata dicts a SearchResult may carry: what add_chunks and
\* add_image_documents store, and dicts lacking the keys _build_sources reads
Metadatas ==
  { ChunkItemMetadata(ChunkOf(<< "item", 1 >>, "A")),
    ImageItemMetadata(ImageDocOf(<< "item", 1 >>, "N")),
    [content_type |-> "image", source_file |-> "pic.png"],
    [content_type |-> "text", image_path |-> "images/pic.png"],
    [content_type |-> "text"] }

SearchResults ==
  [content : {"A", "N"}, score : {9, -5}, metadata : Metadatas,
   content_type : ContentTypes]

SearchResultLists ==
  UNION { [1..n -> SearchResults] : n \in 0..MaxResults }

InitSources ==
  /\ collection = << >>
  /\ sessions = << >>
  /\ clock = 0
  /\ issued = << >>
  /\ call = [c \in Calls |-> IdleCall]
  /\ written = [s \in UUIDs |-> << >>]
  /\ request = NoRequest
  /\ \E rs \in SearchResultLists : out = [op |-> "input", search_results |-> rs]

BuildSources ==
  /\ out.op = "input"
  /\ out' = [op |-> "_build_sources", search_results |-> out.search_results,
             result |-> _build_sources(out.search_results)]
  /\ UNCHANGED << collection, sessions, clock, issued, call, written, request >>

NextSources == BuildSources

SpecSources == InitSources /\ [][NextSources]_vars

(***************************************************************************)
(* _build_prompt on any question, context and history (specification       *)
(* SpecPrompt)                                                             *)
(***************************************************************************)

\* the SearchResults a context may hold
PromptResults ==
  { [content |-> "A", score |-> 9,
     metadata |-> ChunkItemMetadata(ChunkOf(<< "item", 1 >>, "A")),
     content_type |-> TEXT],
    [content |-> "N", score |-> 4,
     metadata |-> ImageItemMetadata(ImageDocOf(<< "item", 2 >>, "N")),
     content_type |-> IMAGE] }

\* the ChatMessages a history may hold
PromptMessages ==
  { NewChatMessage("q1", "a1", << >>, 0),
    NewChatMessage("q2", "a2", SourceList, 0) }

PromptContexts == UNION { [1..n -> PromptResults] : n \in 0..MaxResults }

PromptHistories == UNION { [1..n -> PromptMessages] : n \in 0..MaxHistory }

InitPrompt ==
  /\ collection = << >>
  /\ sessions = << >>
  /\ clock = 0
  /\ issued = << >>
  /\ call = [c \in Calls |-> IdleCall]
  /\ written = [s \in UUIDs |-> << >>]
  /\ request = NoRequest
  /\ \E question \in Questions, context \in PromptContexts,
        history \in PromptHistories :
       out = [op |-> "input", question |-> question, context |-> context,
              history |-> history]

BuildPrompt ==
  /\ out.op = "input"
  /\ out' = [op |-> "_build_prompt", question |-> out.question,
             context |-> out.context, history |-> out.history,
             result |-> _build_prompt(out.question, out.context, out.history)]
  /\ UNCHANGED << collection, sessions, clock, issued, call, written, request >>

NextPrompt == BuildPrompt

SpecPrompt == InitPrompt /\ [][NextPrompt]_vars

(***************************************************************************)
(* Two answer calls on one existing session, the call with the question    *)
(* Asks[1] arriving before the call with the question Asks[2]              *)
(* (specification SpecRace)                                                *)
(***************************************************************************)

\* the session both requests name: the first one create_session made
RaceSession == << "uuid", 1 >>

\* the first request reaches ChatService.answer
BeginFirst ==
  /\ Exists(sessions, RaceSession)
  /\ Begin(1, Asks[1], RaceSession)

\* the second request reaches ChatService.answer after the first has started
BeginSecond ==
  /\ Exists(sessions, RaceSession)
  /\ call[1].pc # "idle"
  /\ Begin(2, Asks[2], RaceSession)

NextRace ==
  \/ CreateSession
  \/ IngestChunk
  \/ BeginFirst
  \/ BeginSecond
  \/ \E c \in Calls : Recall(c)
  \/ \E c \in Calls : Generate(c)
  \/ \E c \in Calls : Persist(c)

SpecRace == Init /\ [][NextRace]_vars

(***************************************************************************)
(* Properties of the answer pipeline (specification Spec)                  *)
(***************************************************************************)

\* C1: answer never lets an exception reach its caller, whichever
\* collaborator fails (is_empty, search, get_recent_history,
\* chat_completion, add_message): no call ends in a raised exception.
C1_NeverPropagates ==
  \A c \in Calls : call[c].pc # "raised"

\* C2: a call that starts on a store with zero items (is_empty reporting it)
\* returns the fixed "knowledge base not built" text with no sources and the
\* given session id, and has called nothing but is_empty: no search, no
\* history read, no provider call, no history write.
C2_EmptyStoreGuard ==
  \A c \in Calls :
    (call[c].pc # "idle" /\ call[c].started_empty /\ call[c].raised_in # "is_empty")
    => /\ call[c].pc = "done"
       /\ call[c].response.answer = NOT_BUILT
       /\ call[c].response.sources = << >>
       /\ call[c].response.session_id = call[c].session_id
       /\ call[c].trace = << "is_empty" >>
       /\ call[c].appended = << >>

C2_Witness ==
  \E c \in Calls :
    /\ call[c].pc = "done"
    /\ call[c].started_empty
    /\ call[c].response.answer = NOT_BUILT
    /\ Len(sessions) > 0

\* C3: on a non-empty store, when search, get_recent_history,
\* chat_completion or add_message raises, the response is exactly the fixed
\* "answer generation failed" text with no sources and the original session
\* id, also when the retrieval had already found citations.
C3_FailureDegrades ==
  \A c \in Calls :
    (call[c].pc = "done"
     /\ call[c].raised_in \in {"search", "get_recent_history",
                               "chat_completion", "add_message"})
    => /\ ~call[c].started_empty
       /\ call[c].response.answer = FAILED
       /\ call[c].response.sources = << >>
       /\ call[c].response.session_id = call[c].session_id

C3_Witness ==
  \E c \in Calls :
    /\ call[c].pc = "done"
    /\ call[c].raised_in = "chat_completion"
    /\ call[c].retrieved > 0
    /\ call[c].response.sources = << >>

\* C4 as claimed: when generation succeeded and add_message then failed,
\* the call still returns the generated answer text.
C4_AnswerSurvivesFailedAppend ==
  \A c \in Calls :
    (call[c].pc = "done" /\ call[c].raised_in = "add_message")
    => call[c].response.answer = call[c].content

\* C4 as amended: when generation succeeded and add_message then failed, the
\* call returns the fixed "answer generation failed" text with no sources
\* and the session id, never the generated answer.
C4_FailedAppendDegrades ==
  \A c \in Calls :
    (call[c].pc = "done" /\ call[c].raised_in = "add_message")
    => /\ call[c].content \in Contents
       /\ call[c].response.answer # call[c].content
       /\ call[c].response = [answer |-> FAILED, sources |-> << >>,
                              session_id |-> call[c].session_id]

C4_Witness ==
  \E c \in Calls :
    /\ call[c].pc = "done"
    /\ call[c].raised_in = "add_message"
    /\ call[c].content \in Contents
    /\ call[c].retrieved > 0

\* C5: for a session that exists throughout the call, a call that returns
\* the generated answer text has appended exactly one message to that
\* session, and the message read back carries the call's question, the
\* returned answer text and the returned sources in the same order.
C5_SuccessRecordsTurn ==
  \A c \in Calls :
    (call[c].pc = "done" /\ call[c].response.answer \in Contents /\ call[c].live)
    => /\ Len(call[c].appended) = 1
       /\ model_validate(call[c].appended[1]).question = call[c].question
       /\ model_validate(call[c].appended[1]).answer = call[c].response.answer
       /\ model_validate(call[c].appended[1]).sources = call[c].response.sources
       /\ \E i \in 1..Len(get_full_history(sessions, call[c].session_id)) :
            get_full_history(sessions, call[c].session_id)[i]
              = model_validate(call[c].appended[1])

C5_Witness ==
  \E c \in Calls :
    /\ call[c].pc = "done"
    /\ call[c].response.answer \in Contents
    /\ call[c].live
    /\ call[c].response.sources # << >>
    /\ Len(call[c].appended) = 1

\* C7: the ids create_session returns are pairwise distinct, so no new id
\* equals one already in the store and no two documents share an id; and a
\* session's history is empty until a call appends to it: its length is the
\* number of calls that appended to it.
C7_SessionIdentity ==
  /\ \A i, j \in 1..Len(issued) : i # j => issued[i] # issued[j]
  /\ \A i, j \in 1..Len(sessions) :
       i # j => sessions[i].session_id # sessions[j].session_id
  /\ \A i \in 1..Len(sessions) : \E j \in 1..Len(issued) :
       sessions[i].session_id = issued[j]
  /\ \A s \in UUIDs :
       Exists(sessions, s) =>
         Len(get_recent_history(sessions, s, history_limit))
           = Cardinality({c \in Calls : call[c].session_id = s
                                        /\ call[c].appended # << >>})

C7_Witness ==
  /\ Len(issued) >= 2
  /\ Len(sessions) >= 2
  /\ \A i \in 1..Len(sessions) :
       get_recent_history(sessions, sessions[i].session_id, history_limit) = << >>
  /\ \E c \in Calls : call[c].pc = "done" /\ call[c].response.answer \in Contents

\* C13: deletion is irreversible.  An id create_session has returned and
\* that has no document is the id of a deleted session; no step (an append
\* of an answer still in flight or started later, a history read, a
\* creation) gives such an id a document again or makes a message readable
\* under it.
C13_DeletionIrreversible ==
  [][\A s \in UUIDs :
       (s \in Range(issued) /\ ~Exists(sessions, s))
       => /\ ~Exists(sessions', s)
          /\ get_full_history(sessions', s) = << >>
          /\ get_recent_history(sessions', s, history_limit) = << >>]_vars

C13_Witness ==
  \E c \in Calls :
    /\ call[c].pc = "done"
    /\ call[c].response.answer \in Contents
    /\ call[c].trace = << "is_empty", "search", "get_recent_history",
                          "chat_completion", "add_message" >>
    /\ call[c].appended = << >>
    /\ call[c].session_id \in Range(issued)
    /\ ~Exists(sessions, call[c].session_id)

\* the collaborator calls of answer, in the order of its code
CallOrder ==
  << "is_empty", "search", "get_recent_history", "chat_completion", "add_message" >>

\* C22: within one answer call the collaborator calls made so far are an
\* initial stretch of is_empty, search, get_recent_history, chat_completion,
\* add_message, each made at most once; a call that raised is the last call
\* made (nothing is retried or started after a failure), and a step is
\* started only when the one before it has returned.
C22_StrictOrder ==
  \A c \in Calls :
    call[c].pc # "idle" =>
      /\ Len(call[c].trace) \in 1..Len(CallOrder)
      /\ call[c].trace = SubSeq(CallOrder, 1, Len(call[c].trace))
      /\ call[c].raised_in # None =>
           /\ call[c].trace[Len(call[c].trace)] = call[c].raised_in
           /\ call[c].pc \in {"done", "raised"}
      /\ call[c].pc = "recall" => call[c].trace = SubSeq(CallOrder, 1, 2)
      /\ call[c].pc = "generate" => call[c].trace = SubSeq(CallOrder, 1, 3)
      /\ call[c].pc = "persist" => call[c].trace = CallOrder
      /\ (call[c].pc = "done" /\ call[c].response.answer \in Contents)
           => call[c].trace = CallOrder

C22_Witness ==
  \E c \in Calls :
    /\ call[c].pc = "done"
    /\ ~call[c].started_empty
    /\ call[c].raised_in = None
    /\ call[c].trace = CallOrder
    /\ call[c].response.answer \in Contents
    /\ Len(call[c].appended) = 1

\* C24: a session's log is append-only: while the session's document
\* exists, every step of every interleaving of the answer calls and
\* create_session leaves the history read before the step a prefix of the
\* history read after it, so no stored message is changed, removed or moved.
C24_AppendOnly ==
  [][\A s \in UUIDs :
       (Exists(sessions, s) /\ Exists(sessions', s)) =>
         LET before == get_full_history(sessions, s)
             after == get_full_history(sessions', s)
         IN /\ Len(before) <= Len(after)
            /\ SubSeq(after, 1, Len(before)) = before
            /\ Len(after) <= Len(before) + 1]_vars

C24_Witness ==
  \E s \in UUIDs :
    /\ Exists(sessions, s)
    /\ Len(get_full_history(sessions, s)) = 2
    /\ \A c \in Calls : call[c].session_id = s /\ Len(call[c].appended) = 1
    /\ \E c \in Calls : MessagesOf(sessions, s)[1] = call[c].appended[1]

\* C25: in every session document the timestamps of the stored messages
\* are non-decreasing in log order, also when several answer calls append to
\* the session concurrently.
C25_TimestampsNonDecreasing ==
  \A i \in 1..Len(sessions) :
    \A j, k \in 1..Len(sessions[i].messages) :
      j < k => sessions[i].messages[j].timestamp <= sessions[i].messages[k].timestamp

\* C26: answer on a session id without a document in the store: the history
\* read is empty, so the prompt is the one built with no history; no step of
\* the call changes the session store (no document is created); and when
\* nothing raises the call returns the generated answer with its sources.
C26_AbsentSession ==
  [][\A c \in Calls :
       (call'[c].pc # call[c].pc /\ ~Exists(sessions, call'[c].session_id)) =>
         /\ sessions' = sessions
         /\ (call[c].pc = "recall" /\ call'[c].pc = "generate") =>
              call'[c].messages =
                _build_prompt(call[c].question, call[c].search_results, << >>)
         /\ (call[c].pc = "persist" /\ call'[c].raised_in = None) =>
              /\ call'[c].pc = "done"
              /\ call'[c].appended = << >>
              /\ call'[c].response =
                   ChatResponse(call[c].content,
                                _build_sources(call[c].search_results),
                                call[c].session_id)
              /\ call[c].content \in Contents]_vars

C26_Witness ==
  \E c \in Calls :
    /\ call[c].pc = "done"
    /\ call[c].raised_in = None
    /\ ~Exists(sessions, call[c].session_id)
    /\ call[c].response.answer \in Contents
    /\ call[c].response.sources # << >>
    /\ call[c].appended = << >>
    /\ \E i \in 1..Len(sessions) : sessions[i].messages # << >>

\* C27: no append is lost: in a session that exists, the message of every
\* finished answer call whose append was applied is in the log exactly once,
\* the message of a call whose append was not applied is not in it, a call
\* that returned the generated answer has appended, and the log holds as
\* many messages as calls have appended, however the calls interleaved.
C27_NoLostAppend ==
  \A s \in UUIDs :
    Exists(sessions, s) =>
      LET log == MessagesOf(sessions, s)
          finished == {c \in Calls : call[c].session_id = s /\ call[c].pc = "done"}
      IN /\ \A c \in finished :
              /\ Cardinality({i \in 1..Len(log) : log[i].question = call[c].question})
                   = Len(call[c].appended)
              /\ Len(call[c].appended) <= 1
              /\ (call[c].live /\ call[c].response.answer \in Contents)
                   => Len(call[c].appended) = 1
         /\ Len(log) = Cardinality({c \in finished : Len(call[c].appended) = 1})

\* two calls overlapped on one session (the one that read the clock first
\* appended second) and both messages are in the log
C27_Witness ==
  \E s \in UUIDs :
    /\ Exists(sessions, s)
    /\ \A c \in Calls :
         /\ call[c].session_id = s
         /\ call[c].pc = "done"
         /\ call[c].live
         /\ call[c].response.answer \in Contents
    /\ Len(MessagesOf(sessions, s)) = Cardinality(Calls)
    /\ MessagesOf(sessions, s)[1].timestamp > MessagesOf(sessions, s)[2].timestamp

\* C28: when search, get_recent_history or chat_completion raises, the call
\* ends without add_message: every step of an answer call before its append
\* leaves the session store and the vector store as they were, the append
\* leaves the vector store as it was, and a call degraded by one of those
\* three steps has no add_message among its collaborator calls, has appended
\* nothing and has no turn of its question in any session.
C28_FailureRecordsNothing ==
  [][\A c \in Calls :
       call'[c].pc # call[c].pc =>
         /\ collection' = collection
         /\ call[c].pc # "persist" => sessions' = sessions
         /\ call'[c].raised_in \in {"search", "get_recent_history", "chat_completion"} =>
              /\ call'[c].pc = "done"
              /\ call'[c].response = FailedResponse(call'[c].session_id)
              /\ \A k \in 1..Len(call'[c].trace) : call'[c].trace[k] # "add_message"
              /\ call'[c].appended = << >>
              /\ \A i \in 1..Len(sessions') :
                   \A j \in 1..Len(sessions'[i].messages) :
                     sessions'[i].messages[j].question # call'[c].question]_vars

\* a generation failed on an existing session that holds the other call's
\* turn and none of the failed call
C28_Witness ==
  \E c \in Calls :
    /\ call[c].pc = "done"
    /\ call[c].raised_in = "chat_completion"
    /\ call[c].live
    /\ call[c].response.answer = FAILED
    /\ Len(MessagesOf(sessions, call[c].session_id)) = 1
    /\ MessagesOf(sessions, call[c].session_id)[1].question # call[c].question
    /\ Len(collection) > 0

(***************************************************************************)
(* Properties of two answer calls on one session (specification SpecRace)  *)
(***************************************************************************)

\* C23: nothing serialises the answer calls of one session: a call that is
\* about to read the history, to generate or to append can always take that
\* step, whatever the other call on the session is doing.  So both calls
\* can read the history before either appends, and the call that started
\* later can append first.
C23_NoSessionLock ==
  \A c \in Calls :
    /\ call[c].pc = "recall" => ENABLED Recall(c)
    /\ call[c].pc = "generate" => ENABLED Generate(c)
    /\ call[c].pc = "persist" => ENABLED Persist(c)

\* the later call has appended, the earlier call has read the history before
\* that append (its prompt has no history) and its append puts its message
\* after the later call's
C23_Witness ==
  /\ call[1].session_id = RaceSession
  /\ call[2].session_id = RaceSession
  /\ call[2].pc = "done"
  /\ Len(call[2].appended) = 1
  /\ call[2].appended[1].question = Asks[2]
  /\ MessagesOf(sessions, RaceSession) = call[2].appended
  /\ call[1].pc = "persist"
  /\ call[1].messages =
       _build_prompt(Asks[1], call[1].search_results, << >>)
  /\ ENABLED (/\ Persist(1)
              /\ Len(MessagesOf(sessions', RaceSession)) = 2
              /\ MessagesOf(sessions', RaceSession)[1].question = Asks[2]
              /\ MessagesOf(sessions', RaceSession)[2].question = Asks[1])

(***************************************************************************)
(* Properties of the session store (specification SpecSession)             *)
(***************************************************************************)

\* C6: after any turns appended in order to a fresh session,
\* get_recent_history(id, n) for n >= 0 returns exactly the last
\* min(n, count) of them, oldest first, each with the question, answer and
\* sources that were written.
C6_RecentHistoryRoundTrip ==
  out.op = "get_recent_history" =>
    LET count == Len(out.log)
        len == Min(out.n, count)
    IN /\ Len(out.result) = len
       /\ \A i \in 1..Len(out.result) :
            /\ count - Len(out.result) + i \in 1..count
            /\ out.result[i].question = out.log[count - Len(out.result) + i].question
            /\ out.result[i].answer = out.log[count - Len(out.result) + i].answer
            /\ out.result[i].sources = out.log[count - Len(out.result) + i].sources

\* C12: delete_session(id) returns true exactly when a document with that
\* id existed (the DELETE route answering 200, else 404) and removes that
\* document, messages included, and no other; afterwards get_full_history(id)
\* and get_recent_history(id, n) are empty and get_all_sessions does not list
\* the id; a second delete_session(id) right after returns false (404).
C12_DeleteRemoves ==
  [][out'.op = "delete_session" =>
       LET s == out'.session_id
       IN /\ out'.result = Exists(sessions, s)
          /\ out'.status = (IF Exists(sessions, s) THEN 200 ELSE 404)
          /\ sessions' = SelectSeq(sessions, LAMBDA d : d.session_id # s)
          /\ get_full_history(sessions', s) = << >>
          /\ \A n \in 0..MaxN : get_recent_history(sessions', s, n) = << >>
          /\ \A r \in get_all_sessions(sessions') :
               \A i \in 1..Len(r) : r[i].session_id # s
          /\ (out.op = "delete_session" /\ out.session_id = s /\ out.result)
               => (out'.result = FALSE /\ out'.status = 404)]_vars

C12_Witness ==
  /\ out.op = "delete_session"
  /\ out.result = TRUE
  /\ out.status = 200
  /\ out.removed > 0
  /\ StoredMessages(sessions) > 0

\* C14: add_message on a session id that has no document returns normally
\* (None) and leaves the sessions collection as it was: no document is
\* created and no message list changes.
C14_AppendToMissingNoEffect ==
  [][(out'.op = "add_message" /\ ~Exists(sessions, out'.session_id))
     => (out'.result = None /\ sessions' = sessions)]_vars

C14_Witness ==
  /\ out.op = "add_message"
  /\ ~Exists(sessions, out.session_id)
  /\ out.session_id \in Range(issued)
  /\ StoredMessages(sessions) > 0

\* C15: on a session id that has no document, get_recent_history and
\* get_full_history return the empty list and delete_session returns false
\* (values, not exceptions), and the sessions collection is left as it was.
C15_AbsenceByValue ==
  [][(out'.op \in {"get_recent_history", "get_full_history", "delete_session"}
      /\ ~Exists(sessions, out'.session_id))
     => /\ sessions' = sessions
        /\ out'.op = "delete_session" => out'.result = FALSE
        /\ out'.op # "delete_session" => out'.result = << >>]_vars

C15_Witness ==
  /\ out.op = "get_full_history"
  /\ out.result = << >>
  /\ ~Exists(sessions, out.session_id)
  /\ StoredMessages(sessions) > 0

\* C17: get_all_sessions returns one summary per session document and no
\* other, newest created_at first; message_count is the number of the
\* session's messages; last_message is the last question, cut to its first
\* 50 characters and followed by "..." exactly when it is longer than 50
\* characters, and the fixed placeholder when the session has no message.
C17_SessionSummaries ==
  out.op = "get_all_sessions" =>
    LET r == out.result
    IN /\ Len(r) = Len(sessions)
       /\ \A i, j \in 1..Len(r) : i # j => r[i].session_id # r[j].session_id
       /\ \A i \in 1..(Len(r) - 1) : r[i].created_at >= r[i + 1].created_at
       /\ \A i \in 1..Len(r) :
            /\ Exists(sessions, r[i].session_id)
            /\ r[i].created_at = sessions[FirstMatch(sessions, r[i].session_id)].created_at
            /\ r[i].message_count = Len(MessagesOf(sessions, r[i].session_id))
            /\ r[i].message_count = Len(written[r[i].session_id])
            /\ r[i].last_message =
                 (IF written[r[i].session_id] = << >> THEN NEW_CHAT
                  ELSE LET q == written[r[i].session_id][Len(written[r[i].session_id])].question
                       IN IF Len(q) > 50 THEN SubSeq(q, 1, 50) \o "..." ELSE q)

C17_Witness ==
  /\ out.op = "get_all_sessions"
  /\ Len(out.result) = 2
  /\ out.result[1].created_at > out.result[2].created_at
  /\ \E i, j \in 1..2 :
       /\ out.result[i].last_message = Question50 \o "..."
       /\ out.result[j].last_message = Question50

(***************************************************************************)
(* Properties of the history route (specification SpecHistoryRoute)        *)
(***************************************************************************)

\* C16: GET /api/sessions/{id} answers 404 only when its last read found no
\* document with the id, and always when none of its reads found one; a
\* session that exists without messages is answered 200 with an empty
\* message list, and a session with messages 200 with all its messages,
\* oldest first.
C16_HistoryRoute ==
  request.pc = "done" =>
    /\ request.status \in {200, 404}
    /\ request.status = 404 =>
         (request.second = "missing" /\ request.response = NOT_FOUND)
    /\ (request.first = FALSE /\ request.second # "found") => request.status = 404
    /\ request.status = 200 =>
         /\ request.first = TRUE \/ request.second = "found"
         /\ request.response.session_id = request.session_id
         /\ request.first = FALSE => request.response.messages = << >>
         /\ request.first = TRUE =>
              [i \in 1..Len(request.response.messages) |->
                 [question |-> request.response.messages[i].question,
                  answer |-> request.response.messages[i].answer,
                  sources |-> model_validate(request.response.messages[i]).sources]]
                = request.log

C16_Witness ==
  /\ request.pc = "done"
  /\ request.status = 200
  /\ request.first = TRUE
  /\ request.second = "found"
  /\ request.log = << >>
  /\ request.response.messages = << >>
  /\ StoredMessages(sessions) > 0

(***************************************************************************)
(* Properties of the chat route (specification SpecChatRoute)              *)
(***************************************************************************)

\* C18: a POST /api/chat body that lacks question or session_id, or gives
\* either as a non-string or as the empty string, is answered with 422 and a
\* detail field, and answer is not called for it; every call of answer gets
\* a non-empty question string and a non-empty session id string.
C18_InvalidBodyRejected ==
  out.op = "chat" =>
    /\ (\E name \in {"question", "session_id"} :
          \/ name \notin DOMAIN out.body
          \/ out.body[name].type # "string"
          \/ out.body[name].value = "")
       => /\ out.status = 422
          /\ "detail" \in DOMAIN out.response
          /\ out.response.detail # << >>
          /\ out.answered = << >>
    /\ \A i \in 1..Len(out.answered) :
         /\ out.body.question.type = "string"
         /\ out.body.session_id.type = "string"
         /\ out.answered[i].question = out.body.question.value
         /\ out.answered[i].session_id = out.body.session_id.value
         /\ out.answered[i].question # ""
         /\ out.answered[i].session_id # ""

C18_Witness ==
  /\ out.op = "chat"
  /\ DOMAIN out.body = {"question", "session_id"}
  /\ out.body.question.type = "string"
  /\ out.body.question.value # ""
  /\ out.body.session_id.type = "string"
  /\ out.body.session_id.value = ""
  /\ out.status = 422
  /\ out.answered = << >>

(***************************************************************************)
(* Properties of the vector store (specification SpecSearch)               *)
(***************************************************************************)

\* C8: search(query, k) on a store of c items returns min(k, c) results
\* (none when c = 0), each the content of a different stored item with
\* score = 1 - distance; no item left out is nearer than a returned one; the
\* results come nearest first, so scores are non-increasing; with A, B, C at
\* distances 0.1, 0.4, 0.2 and k = 2 the result is [A 0.9, C 0.8].
C8_SearchTopK ==
  out.op = "search" =>
    LET c == Len(out.store)
        r == out.result
        d(j) == CosineDistance(out.store[j].embedding,
                               EmbeddingFunction(out.query_text))
    IN /\ Len(r) = Min(out.top_k, c)
       /\ \A i \in 1..(Len(r) - 1) : r[i].score >= r[i + 1].score
       /\ \E ix \in [1..Len(r) -> 1..c] :
            /\ \A i, j \in 1..Len(r) : i # j => ix[i] # ix[j]
            /\ \A i \in 1..Len(r) :
                 /\ r[i].content = out.store[ix[i]].document
                 /\ r[i].score = 10 - d(ix[i])
                 /\ \A x \in 1..c :
                      (\A j \in 1..Len(r) : ix[j] # x) => d(ix[i]) <= d(x)
       /\ ([i \in 1..c |-> out.store[i].document] = << "A", "B", "C" >>
           /\ out.query_text = "q1" /\ out.top_k = 2)
          => [i \in 1..Len(r) |-> << r[i].content, r[i].score >>]
               = << << "A", 9 >>, << "C", 8 >> >>

C8_Witness ==
  /\ out.op = "search"
  /\ [i \in 1..Len(out.store) |-> out.store[i].document] = << "A", "B", "C" >>
  /\ out.query_text = "q1"
  /\ out.top_k = 2
  /\ Len(out.result) = 2

\* C9: every SearchResult returned by search has a score within [0.0, 1.0].
C9_ScoreInUnitRange ==
  out.op = "search" =>
    \A i \in 1..Len(out.result) :
      out.result[i].score >= 0 /\ out.result[i].score <= 10

\* C21: is_empty returns true exactly when the store holds no item and
\* changes nothing in the store; a second call right after it returns the
\* same result; add_chunks and add_image_documents given an empty list leave
\* the store, and so the result of is_empty, as they were.
C21_IsEmptyPure ==
  [][/\ out'.op = "is_empty" =>
          /\ out'.result = (Len(collection) = 0)
          /\ collection' = collection
          /\ out.op = "is_empty" => out'.result = out.result
     /\ (out'.op \in {"add_chunks", "add_image_documents"} /\ out'.n = 0) =>
          /\ collection' = collection
          /\ is_empty(collection') = is_empty(collection)]_vars

C21_Witness ==
  /\ out.op = "add_chunks"
  /\ out.n = 0
  /\ Len(collection) > 0
  /\ ~is_empty(collection)

(***************************************************************************)
(* Properties of _build_sources (specification SpecSources)                *)
(***************************************************************************)

\* what C10 says of every element but the image path: same length and
\* order, content, score and kind copied, file name from the metadata
\* ("" when absent)
SourcesCopyResults ==
  /\ Len(out.result) = Len(out.search_results)
  /\ \A i \in 1..Len(out.result) :
       /\ out.result[i].content = out.search_results[i].content
       /\ out.result[i].score = out.search_results[i].score
       /\ out.result[i].content_type = out.search_results[i].content_type
       /\ out.result[i].source_file =
            (IF "source_file" \in DOMAIN out.search_results[i].metadata
             THEN out.search_results[i].metadata.source_file ELSE "")

C11_PromptOrder ==
  out.op = "_build_prompt" =>
    LET r == out.result
        e == IF out.context = << >> THEN 0 ELSE 1
        L == Len(out.history)
    IN /\ Len(r) = 1 + e + 2 * L + 1
       /\ r[1] = [role |-> "system", content |-> SYSTEM_PROMPT]
       /\ e = 1 =>
            /\ r[2].role = "system"
            /\ Len(r[2].content) = 1 + Len(out.context)
            /\ \A i \in 1..Len(out.context) :
                 r[2].content[1 + i] = << i, out.context[i].content >>
       /\ \A i \in 1..L :
            /\ r[1 + e + 2 * i - 1] = [role |-> "user", content |-> out.history[i].question]
            /\ r[1 + e + 2 * i] = [role |-> "assistant", content |-> out.history[i].answer]
       /\ r[Len(r)] = [role |-> "user", content |-> out.question]

C11_Witness ==
  /\ out.op = "_build_prompt"
  /\ Len(out.context) = 2
  /\ Len(out.history) = 2
  /\ out.history[1] # out.history[2]
  /\ Len(out.result) = 7

(***************************************************************************)
(* Properties of the sheet reader (specification SpecEtl)                  *)
(***************************************************************************)

\* C19: filter_published returns exactly the entries whose status is the
\* publish status, in their original order; faq_entry_to_chunk turns them
\* into one chunk each (as many chunks as published entries), the chunk's
\* text being title, newline, body and its metadata fields the entry's.
C19_PublishedChunks ==
  out.op = "to_chunks" =>
    LET count == Cardinality({i \in 1..Len(out.entries) :
                                out.entries[i].status = PUBLISH_STATUS})
    IN /\ Len(out.published) = count
       /\ \E ix \in [1..count -> 1..Len(out.entries)] :
            /\ \A i, j \in 1..count : i < j => ix[i] < ix[j]
            /\ \A i \in 1..count :
                 /\ out.entries[ix[i]].status = PUBLISH_STATUS
                 /\ out.published[i] = out.entries[ix[i]]
       /\ Len(out.chunks) = count
       /\ \A i \in 1..Len(out.chunks) :
            /\ out.chunks[i].text = out.published[i].title \o "\n" \o out.published[i].body
            /\ out.chunks[i].metadata.source_file = out.published[i].source_file
            /\ out.chunks[i].metadata.sheet_name = out.published[i].sheet_name
            /\ out.chunks[i].metadata.row_number = out.published[i].row_number
            /\ out.chunks[i].metadata.parent_category = out.published[i].parent_category
            /\ out.chunks[i].metadata.child_category = out.published[i].child_category
            /\ out.chunks[i].metadata.title = out.published[i].title

C19_Witness ==
  /\ out.op = "to_chunks"
  /\ Len(out.entries) = 3
  /\ out.entries[2].status # PUBLISH_STATUS
  /\ Len(out.chunks) = 2
  /\ out.chunks[1].text = "T2\nB2"
  /\ out.chunks[2].text = "T1\nB1"

(***************************************************************************)
(* Properties of the ingestion (specification SpecIngest)                  *)
(***************************************************************************)

\* C20: when embedding or storing an item fails during ingestion, the
\* operation is attempted a second time; the error is recorded only when
\* that retry fails too (an item whose retry succeeds is stored), and
\* ingestion goes on with the next item.
C20_RetriedOnce ==
  out.op = "ingest_images" =>
    /\ Len(out.items) = Len(out.image_paths)
    /\ \A i \in 1..Len(out.items) :
         out.plan[i][1] # "ok" =>
           /\ out.items[i].attempts = 2
           /\ out.items[i].error <=> (out.plan[i][2] # "ok")
           /\ out.items[i].stored <=> (out.plan[i][2] = "ok")

RowCopies(coll, entry) ==
  Cardinality({p \in 1..Len(coll) :
                 /\ coll[p].metadata.content_type = ContentTypeValue(TEXT)
                 /\ coll[p].metadata.row_number = entry.row_number
                 /\ coll[p].document = entry.title \o "\n" \o entry.body})

\* the stored items made from the image file
ImageCopies(coll, image_path) ==
  Cardinality({p \in 1..Len(coll) :
                 /\ coll[p].metadata.content_type = ContentTypeValue(IMAGE)
                 /\ coll[p].metadata.image_path = image_path})

\* C30: ingestion never de-duplicates.  Every stored item has an id of its
\* own; a run of ingest_all adds one more copy of every published row when
\* the FAQ file is stored and one more copy of every image whose attempt
\* succeeds, so k runs in which nothing fails leave k copies of every item;
\* an image upload adds one more copy of every image that was already in
\* the directory (when its attempt succeeds); an upload of the FAQ file adds
\* one more copy of every published row; the item count never decreases.
C30_NeverDeduplicates ==
  [][LET published == Range(filter_published(written'.faq))
     IN /\ Len(collection') >= Len(collection)
        /\ \A p, q \in 1..Len(collection') :
             p # q => collection'[p].id # collection'[q].id
        /\ out'.op = "ingest_all" =>
             /\ \A e \in published :
                  RowCopies(collection', e) = RowCopies(collection, e)
                    + (IF out'.excel = "ok" THEN 1 ELSE 0)
             /\ \A i \in 1..Len(out'.image_paths) :
                  ImageCopies(collection', out'.image_paths[i])
                    = ImageCopies(collection, out'.image_paths[i])
                        + (IF out'.plan[i][1] = "ok" THEN 1 ELSE 0)
             /\ Len(collection') = Len(collection) + out'.result.total_processed
        /\ out'.op = "upload_image" =>
             /\ written.images \subseteq Range(out'.image_paths)
             /\ \A i \in 1..Len(out'.image_paths) :
                  ImageCopies(collection', out'.image_paths[i])
                    = ImageCopies(collection, out'.image_paths[i])
                        + (IF out'.plan[i][1] = "ok" THEN 1 ELSE 0)
             /\ Len(collection') = Len(collection) + out'.result.total_processed
        /\ out'.op = "upload_excel" =>
             \A e \in published :
               RowCopies(collection', e) = RowCopies(collection, e)
                 + (IF out'.excel = "ok" THEN 1 ELSE 0)
        /\ out'.clean =>
             /\ \A e \in published : RowCopies(collection', e) = out'.runs
             /\ \A f \in written'.images : ImageCopies(collection', f) = out'.runs
             /\ Len(collection') =
                  out'.runs * (Cardinality(published) + Cardinality(written'.images))]_vars

\* two runs of ingest_all in which nothing failed: two items, with different
\* ids, for the published row and two for the image
C30_Witness ==
  /\ out.op = "ingest_all"
  /\ out.runs = 2
  /\ out.clean
  /\ RowCopies(collection, written.faq[1]) = 2
  /\ ImageCopies(collection, ImagePaths[1]) = 2
  /\ Len(collection) >= 4
  /\ Cardinality({collection[p].id : p \in 1..Len(collection)}) = Len(collection)

====
